---- MODULE Spec2Model ----
(***************************************************************************)
(* A model of unity-version-selector (main.go): the command line, the      *)
(* persisted Configuration, the scan of the installation root with its     *)
(* depth-limited search for Unity.exe, the ordering of the version keys    *)
(* and the resolution of a project's editor version.                       *)
(*                                                                         *)
(* Strings are sequences of one-character strings, so that prefixes,       *)
(* separator counts, quoting and lexicographic order are computed as the   *)
(* code computes them.  The program is Windows-only (it reads the          *)
(* registry), so filepath.Separator is the backslash.                      *)
(***************************************************************************)
EXTENDS Integers, Sequences, FiniteSets, TLC

VARIABLES
    wtree,      \* SpecWalk: the directory tree below one version directory
    wres,       \* SpecWalk: the outcome of deepFind on it
    kvers,      \* SpecKeys: a Versions mapping
    korder,     \* SpecKeys: the order in which range iterates over it
    kres,       \* SpecKeys: what getVersionKeys returned
    storage,    \* the persisted Configuration file (config.toml)
    runs,       \* invocations started so far
    prevRebuilt,\* history: what the previous invocation's rebuild returned
    startStorage,\* history: the file as this invocation found it
    pc,         \* where main is: idle, configure, ready, resolve, open, exit0, fatal
    args,       \* os.Args[1:]
    reload,     \* *reload after flag.Parse
    list,       \* *list after flag.Parse
    project,    \* the variable project of main
    config,     \* the variable config of main
    how,        \* history: how config was produced: none, loaded, rebuilt
    listing,    \* history: the installation root as the scan of this run read it
    out,        \* what the run printed with fmt.Println
    asked,      \* history: askProject was called
    metaRead,   \* history: the metadata file getProjectVersion read
    launched,   \* the editor process started by cmd.Start
    fatal       \* the error the run died of ("" while it has not)

walkVars == <<wtree, wres>>
keyVars == <<kvers, korder, kres>>
mainVars == <<storage, runs, prevRebuilt, startStorage, pc, args, reload, list,
              project, config, how, listing, out, asked, metaRead, launched,
              fatal>>
vars == <<walkVars, keyVars, mainVars>>

----------------------------------------------------------------------------
(* Bounds of the model *)

\* longest chain of nested directories below a version directory
MaxSpine == 5

\* most entries named Unity.exe in one tree
MaxExes == 2

\* most keys of a Versions mapping handed to getVersionKeys
MaxKeys == 4

\* most arguments on a command line
MaxArgs == 2

\* most invocations in a row
MaxRuns == 2

----------------------------------------------------------------------------
(* Strings *)

\* the characters the model uses, in ascending byte order
AsciiOrder ==
    << "\n", "\r", " ", "\"", "$", "(", ")", "+", "-", ".", "/", "0",
       "1", "2", "3", "4", "5", "6", "7", "8", "9", ":", "=", "A",
       "B", "C", "D", "E", "F", "G", "H", "I", "J", "K", "L", "M",
       "N", "O", "P", "Q", "R", "S", "T", "U", "V", "W", "X", "Y",
       "Z", "[", "\\", "]", "^", "_", "a", "b", "c", "d", "e", "f",
       "g", "h", "i", "j", "k", "l", "m", "n", "o", "p", "q", "r",
       "s", "t", "u", "v", "w", "x", "y", "z" >>

Code(c) == CHOOSE i \in 1..Len(AsciiOrder) : AsciiOrder[i] = c

\* strings.HasPrefix
HasPrefix(s, prefix) ==
    /\ Len(s) >= Len(prefix)
    /\ SubSeq(s, 1, Len(prefix)) = prefix

\* s < t in the byte-wise order of Go strings (sort.Strings, ReadDir)
StrLess(s, t) ==
    \E i \in 1..(Len(t)) :
        /\ \A j \in 1..(i - 1) : j <= Len(s) /\ s[j] = t[j]
        /\ \/ Len(s) = i - 1
           \/ Len(s) >= i /\ Code(s[i]) < Code(t[i])

\* strings.Count(s, sep) for a one-character sep
Count(s, sep) == Cardinality({i \in 1..Len(s) : s[i] = sep})

\* the names sorted ascending, as ioutil.ReadDir and filepath.Walk list a directory
RECURSIVE SortNames(_)
SortNames(S) ==
    IF S = {} THEN << >>
    ELSE LET m == CHOOSE x \in S : \A y \in S : x = y \/ StrLess(x, y)
         IN  <<m>> \o SortNames(S \ {m})

----------------------------------------------------------------------------
(* Program constants *)

depthCutoff == 6

Sep == "\\"

ProgramDir ==
    <<"C", ":", "/", "P", "r", "o", "g", "r", "a", "m", " ",
      "F", "i", "l", "e", "s">>

UnityExe == <<"U", "n", "i", "t", "y", ".", "e", "x", "e">>

----------------------------------------------------------------------------
(* Paths *)

\* filepath.FromSlash on Windows
FromSlash(s) == [i \in 1..Len(s) |-> IF s[i] = "/" THEN Sep ELSE s[i]]

\* path.Join(dir, name): slash-separated, as loadVersions builds the search root
PathJoin(dir, name) == dir \o <<"/">> \o name

\* filepath.Join(dir, name) on Windows: joined by the separator and cleaned,
\* which rewrites every slash as a backslash
FilepathJoin(dir, name) == FromSlash(dir) \o <<Sep>> \o name

----------------------------------------------------------------------------
(* The directory tree below a version directory.                           *)
(* A tree maps the relative path of each entry (a sequence of names, << >> *)
(* for the version directory itself) to its kind: "file", "dir", "baddir"  *)
(* (a directory whose listing fails) or "nostat" (an entry whose Lstat     *)
(* fails).                                                                 *)

Editor == <<"E", "d", "i", "t", "o", "r">>     \* sorts before Unity.exe
Zdir == <<"z">>                                \* sorts after Unity.exe
DataFile == <<"D">>                            \* sorts before both

Prefix(s, n) == SubSeq(s, 1, n)

\* spine: nested directories; exeAt: the depths whose directory holds an entry
\* named Unity.exe; decoy: the depth where that entry is a directory, not a
\* file (-1: none); junk: the innermost directory also holds the file D;
\* bad: the kind of the innermost directory
MkTree(spine, exeAt, decoy, junk, bad) ==
    LET n == Len(spine)
        dirs == {Prefix(spine, i) : i \in 0..n}
        exes == {Append(Prefix(spine, i), UnityExe) : i \in exeAt}
        junks == IF junk THEN {Append(spine, DataFile)} ELSE {}
    IN  [p \in dirs \cup exes \cup junks |->
            IF p \in dirs THEN (IF Len(p) = n THEN bad ELSE "dir")
            ELSE IF p \in junks THEN "file"
            ELSE IF Len(p) = decoy + 1 THEN "dir" ELSE "file"]

IsDir(kind) == kind \in {"dir", "baddir"}

\* the names in the directory rel, sorted (readDirNames)
ChildNames(tree, rel) ==
    SortNames({p[Len(p)] : p \in {q \in DOMAIN tree :
                  Len(q) = Len(rel) + 1 /\ Prefix(q, Len(rel)) = rel}})

----------------------------------------------------------------------------
(* deepFind *)

\* WalkFn with the cutoff off by one (depth >= depthCutoff)
WalkFnOffByOne(path, name, kind, err) ==
    IF err THEN [ret |-> "ioError", found |-> << >>]
    ELSE IF Count(path, Sep) >= depthCutoff
         THEN [ret |-> "SkipDir", found |-> << >>]
    ELSE IF ~IsDir(kind) /\ name = UnityExe
         THEN [ret |-> "dummyError", found |-> path]
    ELSE [ret |-> "nil", found |-> << >>]

\* the function deepFind passes to filepath.Walk; err: Walk reports an error
WalkFn(path, name, kind, err) ==
    IF err THEN [ret |-> "ioError", found |-> << >>]
    ELSE IF Count(path, Sep) > depthCutoff
         THEN [ret |-> "SkipDir", found |-> << >>]
    ELSE IF ~IsDir(kind) /\ name = UnityExe
         THEN [ret |-> "dummyError", found |-> path]
    ELSE [ret |-> "nil", found |-> << >>]

Visit(path, name, kind, err) ==
    LET r == WalkFn(path, name, kind, err)
    IN  [ret |-> r.ret, found |-> r.found, visited |-> <<path>>]

\* filepath.walk: the entry itself, then the entries of a directory in
\* lexical order.  SkipDir from a directory skips that directory, SkipDir from
\* a file skips the rest of the directory holding it, any other error stops
\* the walk.
RECURSIVE walk(_, _, _, _)
RECURSIVE walkNames(_, _, _, _)
walk(tree, rel, path, name) ==
    LET kind == tree[rel]
        r1 == Visit(path, name, kind, kind = "baddir")
    IN  IF ~IsDir(kind) THEN r1
        ELSE IF kind = "baddir" \/ r1.ret # "nil" THEN r1
        ELSE LET rest == walkNames(tree, rel, path, ChildNames(tree, rel))
             IN  [rest EXCEPT !.visited = r1.visited \o @]

walkNames(tree, rel, path, names) ==
    IF names = << >> THEN [ret |-> "nil", found |-> << >>, visited |-> << >>]
    ELSE LET n == Head(names)
             child == Append(rel, n)
             filename == FilepathJoin(path, n)
             r == IF tree[child] = "nostat"
                  THEN Visit(filename, n, "nostat", TRUE)
                  ELSE walk(tree, child, filename, n)
             stop == IF tree[child] = "nostat"
                     THEN r.ret # "nil" /\ r.ret # "SkipDir"
                     ELSE r.ret # "nil" /\ (~IsDir(tree[child]) \/ r.ret # "SkipDir")
         IN  IF stop THEN r
             ELSE LET rest == walkNames(tree, rel, path, Tail(names))
                  IN  [rest EXCEPT !.visited = r.visited \o @]

\* filepath.Walk
Walk(tree, root, name) ==
    LET r == IF tree[<< >>] = "nostat"
             THEN Visit(root, name, "nostat", TRUE)
             ELSE walk(tree, << >>, root, name)
    IN  IF r.ret = "SkipDir" THEN [r EXCEPT !.ret = "nil"] ELSE r

\* base name of the slash-separated search root
Base(root) ==
    LET last == CHOOSE i \in 0..Len(root) :
                    /\ i = 0 \/ root[i] = "/"
                    /\ \A j \in (i + 1)..Len(root) : root[j] # "/"
    IN  SubSeq(root, last + 1, Len(root))

\* deepFind(root, name) over the tree at root.  Anything Walk returns other
\* than dummyError, nil included, goes to log.Fatal.
deepFind(tree, root, name) ==
    LET r == Walk(tree, root, Base(root))
    IN  [fatal |-> r.ret # "dummyError",
         path |-> r.found,
         err |-> r.ret,
         visited |-> r.visited]

----------------------------------------------------------------------------
(* getVersionKeys *)

\* sort.Strings: the sequence in ascending order (insertion sort)
RECURSIVE InsertSorted(_, _)
InsertSorted(sorted, x) ==
    IF sorted = << >> THEN <<x>>
    ELSE IF StrLess(x, Head(sorted)) THEN <<x>> \o sorted
    ELSE <<Head(sorted)>> \o InsertSorted(Tail(sorted), x)

RECURSIVE SortStrings(_)
SortStrings(seq) ==
    IF seq = << >> THEN << >>
    ELSE InsertSorted(SortStrings(Tail(seq)), Head(seq))

\* the prefix getVersionKeys splits on
Twenty == <<"2", "0">>

NewKeysOf(seq) == SelectSeq(seq, LAMBDA k : HasPrefix(k, Twenty))
OldKeysOf(seq) == SelectSeq(seq, LAMBDA k : ~HasPrefix(k, Twenty))

\* getVersionKeys without the split on the prefix "20"
getVersionKeysUnsplit(versions, order) == SortStrings(order)

\* config.getVersionKeys(); order is the order in which range yields the keys
\* of config.Versions
getVersionKeys(versions, order) ==
    SortStrings(OldKeysOf(order)) \o SortStrings(NewKeysOf(order))

\* the orders in which a map with key set K may be iterated
Orders(K) ==
    {o \in [1..Cardinality(K) -> K] : \A i, j \in DOMAIN o : i # j => o[i] # o[j]}

----------------------------------------------------------------------------
(* The three specifications share the variables; each leaves the others'   *)
(* variables at rest.                                                      *)

NoResult == [done |-> FALSE]

WalkIdle == wtree = << >> /\ wres = NoResult

KeysIdle == kvers = << >> /\ korder = << >> /\ kres = NoResult

----------------------------------------------------------------------------
(* The command line *)

Reload == <<"-", "-", "r", "e", "l", "o", "a", "d">>
List == <<"-", "-", "l", "i", "s", "t">>
Bogus == <<"-", "x">>
ProjectP == <<"p">>
ProjectQ == <<"q">>

ArgTokens == {Reload, List, Bogus, ProjectP}

ArgLists == UNION {[1..n -> ArgTokens] : n \in 0..MaxArgs}

\* the flags main defines
FlagReload == <<"r", "e", "l", "o", "a", "d">>
FlagList == <<"l", "i", "s", "t">>

\* flag.Parse over os.Args[1:], from argument i on.  It stops without an error
\* at the first argument that is not a flag, and with an error (the process
\* exits with status 2) at a flag that is not defined.  The arguments of the
\* model carry no "=value", so a defined flag is set to true.
RECURSIVE ParseFlags(_, _, _)
ParseFlags(a, i, acc) ==
    IF i > Len(a) THEN acc
    ELSE LET s == a[i]
         IN  IF Len(s) < 2 \/ s[1] # "-" THEN acc
             ELSE LET minuses == IF s[2] = "-" THEN 2 ELSE 1
                      name == SubSeq(s, minuses + 1, Len(s))
                  IN  IF minuses = 2 /\ Len(s) = 2 THEN acc
                      ELSE IF name = << >> \/ name[1] \in {"-", "="}
                           THEN [acc EXCEPT !.err = TRUE]
                      ELSE IF name = FlagReload
                           THEN ParseFlags(a, i + 1, [acc EXCEPT !.reload = TRUE])
                      ELSE IF name = FlagList
                           THEN ParseFlags(a, i + 1, [acc EXCEPT !.list = TRUE])
                      ELSE [acc EXCEPT !.err = TRUE]

FlagParse(a) == ParseFlags(a, 1, [reload |-> FALSE, list |-> FALSE, err |-> FALSE])

\* main, lines 46-49: the project is os.Args[1] unless that starts with "-"
ProjectOf(a) ==
    IF Len(a) >= 1 /\ ~HasPrefix(a[1], <<"-">>) THEN a[1] ELSE << >>

----------------------------------------------------------------------------
(* The Configuration and its TOML file *)

DirPattern == <<"^", "U", "n", "i", "t", "y", "(", ".", "+", ")", "$">>

EmptyMap == [k \in {} |-> << >>]

\* var config Config
zeroConfig == [ProgramDir |-> << >>, DirPattern |-> << >>, Versions |-> EmptyMap]

defaultConfig ==
    [ProgramDir |-> ProgramDir, DirPattern |-> DirPattern, Versions |-> EmptyMap]

KeyProgramDir == <<"P", "r", "o", "g", "r", "a", "m", "D", "i", "r">>
KeyDirPattern == <<"D", "i", "r", "P", "a", "t", "t", "e", "r", "n">>
KeyVersions == <<"V", "e", "r", "s", "i", "o", "n", "s">>

Quote == "\""

\* the text of a TOML basic string: backslash and quote are escaped, so each
\* of them takes two places of the text
Special(c) == c \in {Sep, Quote}

\* each character of s preceded by a backslash where it is special, by
\* nothing ("") where it is not; the text is what remains
Escape(s) ==
    SelectSeq([j \in 1..(2 * Len(s)) |->
                  IF j % 2 = 0 THEN s[j \div 2]
                  ELSE IF Special(s[(j + 1) \div 2]) THEN Sep ELSE ""],
              LAMBDA c : c # "")

Quoted(s) == <<Quote>> \o Escape(s) \o <<Quote>>

\* the characters of a bare TOML key
BareChars ==
    {"-", "_", "0", "1", "2", "3", "4", "5", "6", "7", "8", "9",
     "A", "C", "D", "E", "F", "P", "U", "V",
     "a", "d", "e", "g", "i", "l", "m", "n", "o", "p", "r", "s", "t", "x", "y", "z"}

IsBare(k) == k # << >> /\ \A i \in 1..Len(k) : k[i] \in BareChars

KeyText(k) == IF IsBare(k) THEN k ELSE Quoted(k)

KV(k, v) == [kind |-> "kv", key |-> KeyText(k), val |-> Quoted(v)]

\* toml.NewEncoder(file).Encode(config): the fields in order, the map as a
\* table with its keys sorted
Encode(c) ==
    LET keys == SortNames(DOMAIN c.Versions)
    IN  << KV(KeyProgramDir, c.ProgramDir), KV(KeyDirPattern, c.DirPattern),
           [kind |-> "table", key |-> KeyVersions, val |-> << >>] >>
        \o [i \in 1..Len(keys) |-> KV(keys[i], c.Versions[keys[i]])]

\* the backslashes right before place j of the text t
BackslashesBefore(t, j) ==
    LET k == CHOOSE k \in 0..(j - 1) :
                 /\ k = 0 \/ t[k] # Sep
                 /\ \A m \in (k + 1)..(j - 1) : t[m] = Sep
    IN  j - 1 - k

\* place j of t holds a backslash that starts an escape
StartsEscape(t, j) == t[j] = Sep /\ BackslashesBefore(t, j) % 2 = 0

\* the string a TOML basic string stands for; ok is false for text that is
\* not one (an escape other than \\ and \", a bare quote inside)
Unescape(t) ==
    LET starts == {j \in 1..Len(t) : StartsEscape(t, j)}
        kept == SelectSeq([j \in 1..Len(t) |-> j], LAMBDA j : j \notin starts)
        ok == /\ \A j \in starts : j < Len(t) /\ Special(t[j + 1])
              /\ \A n \in 1..Len(kept) :
                     t[kept[n]] = Quote => (kept[n] - 1) \in starts
    IN  [ok |-> ok,
         str |-> IF ok THEN [n \in 1..Len(kept) |-> t[kept[n]]] ELSE << >>]

Unquoted(t) ==
    IF Len(t) >= 2 /\ t[1] = Quote /\ t[Len(t)] = Quote
    THEN Unescape(SubSeq(t, 2, Len(t) - 1))
    ELSE [ok |-> FALSE, str |-> << >>]

KeyOf(t) == IF t # << >> /\ t[1] = Quote THEN Unquoted(t) ELSE [ok |-> IsBare(t), str |-> t]

\* toml.Decode of the lines into c, from line i on, inside the table named tbl
RECURSIVE DecodeLines(_, _, _, _)
DecodeLines(lines, i, tbl, c) ==
    IF i > Len(lines) THEN [ok |-> TRUE, config |-> c]
    ELSE LET l == lines[i]
             k == KeyOf(l.key)
             v == Unquoted(l.val)
         IN  IF ~k.ok THEN [ok |-> FALSE, config |-> c]
             ELSE IF l.kind = "table" THEN DecodeLines(lines, i + 1, k.str, c)
             ELSE IF ~v.ok THEN [ok |-> FALSE, config |-> c]
             ELSE IF tbl = << >> /\ k.str = KeyProgramDir
                  THEN DecodeLines(lines, i + 1, tbl, [c EXCEPT !.ProgramDir = v.str])
             ELSE IF tbl = << >> /\ k.str = KeyDirPattern
                  THEN DecodeLines(lines, i + 1, tbl, [c EXCEPT !.DirPattern = v.str])
             ELSE IF tbl = KeyVersions
                  THEN DecodeLines(lines, i + 1, tbl,
                           [c EXCEPT !.Versions = (k.str :> v.str) @@ @])
             ELSE DecodeLines(lines, i + 1, tbl, c)

\* the file: absent, not TOML, or a document of lines
Absent == [kind |-> "absent", lines |-> << >>]
Malformed == [kind |-> "malformed", lines |-> << >>]
Doc(lines) == [kind |-> "doc", lines |-> lines]

\* toml.DecodeFile(configPath, &config) on a zero config
DecodeFile(file) ==
    IF file.kind # "doc" THEN [ok |-> FALSE, config |-> zeroConfig]
    ELSE DecodeLines(file.lines, 1, << >>, zeroConfig)

----------------------------------------------------------------------------
(* loadVersions *)

Unity == <<"U", "n", "i", "t", "y">>

\* regexp.MustCompile(`^Unity(.+)$`).FindStringSubmatch(name): the whole match
\* and the capture, or nothing; "." matches any character but a newline
FindDirSubmatch(name) ==
    IF /\ HasPrefix(name, Unity)
       /\ Len(name) > Len(Unity)
       /\ \A i \in (Len(Unity) + 1)..Len(name) : name[i] # "\n"
    THEN <<name, SubSeq(name, Len(Unity) + 1, Len(name))>>
    ELSE << >>

\* the loop of loadVersions over files[i..], versions being the map so far.
\* A fatal deepFind ends the process inside the loop.
RECURSIVE ScanFrom(_, _, _, _)

\* lines 216-221: exe is what deepFind gave for the directory matched as s
ScanFound(c, files, i, versions, s, exe) ==
    IF exe.fatal THEN [fatal |-> "deepFind", versions |-> versions]
    ELSE IF exe.path = << >> THEN ScanFrom(c, files, i + 1, versions)
    ELSE ScanFrom(c, files, i + 1, (s[2] :> exe.path) @@ versions)

\* lines 209-222: one entry of the listing, s being the match of its name
ScanEntry(c, files, i, versions, file, s) ==
    IF file.isDir /\ Len(s) >= 2
    THEN ScanFound(c, files, i, versions, s,
             deepFind(file.tree, PathJoin(c.ProgramDir, file.name), UnityExe))
    ELSE ScanFrom(c, files, i + 1, versions)

ScanFrom(c, files, i, versions) ==
    IF i > Len(files) THEN [fatal |-> "", versions |-> versions]
    ELSE ScanEntry(c, files, i, versions, files[i], FindDirSubmatch(files[i].name))

\* loadVersions(config) on the installation root as dir lists it
loadVersions(c, dir) ==
    IF ~dir.ok THEN [fatal |-> "ReadDir", versions |-> EmptyMap]
    ELSE ScanFrom(c, dir.files, 1, EmptyMap)

----------------------------------------------------------------------------
(* The installation roots a scan may meet *)

Unity5 == Unity \o <<"5">>
Unity20 == Unity \o <<"2", "0">>
GitDir == <<"G", "i", "t">>
Unity9 == Unity \o <<"9">>

\* the tree below a version directory: Unity.exe in Editor ("exe"), no
\* Unity.exe at all ("none"), Unity.exe only below the depth cutoff ("deep"),
\* a directory that cannot be listed ("bad")
ScanTree(shape) ==
    CASE shape = "exe" -> MkTree(<<Editor>>, {1}, -1, FALSE, "dir")
      [] shape = "none" -> MkTree(<<Editor>>, {}, -1, TRUE, "dir")
      [] shape = "deep" -> MkTree(<<Editor, Editor, Editor, Editor>>, {4}, -1, FALSE, "dir")
      [] shape = "bad" -> MkTree(<<Editor>>, {1}, -1, FALSE, "baddir")

DirEntry(name, shape) == [name |-> name, isDir |-> TRUE, tree |-> ScanTree(shape)]
FileEntry(name) == [name |-> name, isDir |-> FALSE, tree |-> << >>]

\* what ioutil.ReadDir(ProgramDir) returns: the entries sorted by name.
\* u5, u20: the shape of the directories Unity5 and Unity20 ("absent": no such
\* directory); extras: the directories Git and Unity and the file Unity9 exist
ListingOf(u5, u20, extras) ==
    LET entries ==
            (IF u5 = "absent" THEN {} ELSE {DirEntry(Unity5, u5)})
            \cup (IF u20 = "absent" THEN {} ELSE {DirEntry(Unity20, u20)})
            \cup (IF extras
                  THEN {DirEntry(GitDir, "exe"), DirEntry(Unity, "exe"), FileEntry(Unity9)}
                  ELSE {})
        names == SortNames({e.name : e \in entries})
    IN  [ok |-> TRUE,
         files |-> [i \in 1..Len(names) |->
                       CHOOSE e \in entries : e.name = names[i]]]

Unlistable == [ok |-> FALSE, files |-> << >>]

NotScanned == [scanned |-> FALSE, dir |-> Unlistable]
Scanned(dir) == [scanned |-> TRUE, dir |-> dir]

Shapes == {"exe", "none", "deep", "bad"}

Listings ==
    {Unlistable} \cup
    {ListingOf(u5, u20, x) :
        u5 \in Shapes \cup {"absent"}, u20 \in {"exe", "none", "absent"},
        x \in BOOLEAN}

----------------------------------------------------------------------------
(* Config.initialize and Config.output *)

\* config.output(configDir) on the file: configDir.Create truncates it, Encode
\* writes the document.  io: "ok", "createFails" or "encodeFails".
output(c, file, io) ==
    IF io = "createFails" THEN [fatal |-> "Create", file |-> file]
    ELSE IF io = "encodeFails" THEN [fatal |-> "Encode", file |-> Doc(<< >>)]
    ELSE [fatal |-> "", file |-> Doc(Encode(c))]

\* what initialize leaves behind: scan is what loadVersions returned, c the
\* config it made, w what output(c) does to the file
Initialized(scan, c, file, w) ==
    IF scan.fatal # ""
    THEN [fatal |-> scan.fatal, config |-> defaultConfig, file |-> file]
    ELSE [fatal |-> w.fatal, config |-> c, file |-> w.file]

WithVersions(scan) == [defaultConfig EXCEPT !.Versions = scan.versions]

\* the scan as it ends once the file has been written already
AfterOutput(scan, w) ==
    IF w.fatal # "" THEN [fatal |-> w.fatal, config |-> defaultConfig, file |-> w.file]
    ELSE [fatal |-> scan.fatal, config |-> WithVersions(scan), file |-> w.file]

\* initialize that persists the defaults first and scans afterwards
initializeOutputFirst(dir, file, io) ==
    AfterOutput(loadVersions(defaultConfig, dir), output(defaultConfig, file, io))

\* initialize whose output leaves the Versions table out
InitializedNoVersions(scan, file, io) ==
    Initialized(scan, WithVersions(scan), file, output(defaultConfig, file, io))

initializeNoVersions(dir, file, io) ==
    InitializedNoVersions(loadVersions(defaultConfig, dir), file, io)

\* lines 164-165 for the scan that loadVersions returned
InitializedFrom(scan, file, io) ==
    Initialized(scan, WithVersions(scan), file, output(WithVersions(scan), file, io))

\* config.initialize(configDir): the defaults, the scan, then the file.
\* A fatal scan ends the process before the file is touched.
initialize(dir, file, io) ==
    InitializedFrom(loadVersions(defaultConfig, dir), file, io)

----------------------------------------------------------------------------
(* getProjectVersion and openProject *)

\* the literal part of versionPattern, `m_EditorVersion: `
VersionLiteral ==
    <<"m", "_", "E", "d", "i", "t", "o", "r", "V", "e", "r", "s", "i", "o", "n",
      ":", " ">>

\* regexp.MustCompile(versionPattern).FindSubmatch(data): the leftmost match
\* of the literal followed by at least one character other than a newline;
\* the capture runs to the end of the line
FindVersionSubmatch(data) ==
    LET n == Len(VersionLiteral)
        starts == {i \in 1..Len(data) :
                      /\ i + n <= Len(data)
                      /\ SubSeq(data, i, i + n - 1) = VersionLiteral
                      /\ data[i + n] # "\n"}
    IN  IF starts = {} THEN << >>
        ELSE LET i == CHOOSE x \in starts : \A y \in starts : x <= y
                 last == CHOOSE j \in (i + n)..Len(data) :
                             /\ \A k \in (i + n)..j : data[k] # "\n"
                             /\ j = Len(data) \/ data[j + 1] = "\n"
             IN  <<SubSeq(data, i, last), SubSeq(data, i + n, last)>>

\* the metadata file of a project: absent, present but unreadable, or its text
NoFile == [kind |-> "absent", data |-> << >>]
Unreadable == [kind |-> "unreadable", data |-> << >>]
Text(data) == [kind |-> "text", data |-> data]

MetaFiles ==
    {NoFile, Unreadable,
     Text(<< >>),
     Text(<<"x", "\n">>),
     Text(VersionLiteral \o <<"\n">>),
     Text(VersionLiteral \o <<"5", "\n">>),
     Text(VersionLiteral \o <<"2", "0">>),
     Text(VersionLiteral \o <<"5", "\r", "\n">>),
     Text(<<"x", "\n">> \o VersionLiteral \o <<"7", "\n">> \o VersionLiteral \o <<"5", "\n">>)}

\* getProjectVersion(projectPath) with the file at
\* projectPath/ProjectSettings/ProjectVersion.txt being meta
getProjectVersion(meta) ==
    IF meta.kind = "absent" THEN [fatal |-> "NoProjectVersion", version |-> << >>]
    ELSE IF meta.kind = "unreadable" THEN [fatal |-> "ReadFile", version |-> << >>]
    ELSE LET s == FindVersionSubmatch(meta.data)
         IN  IF Len(s) < 2 THEN [fatal |-> "NoEditorVersion", version |-> << >>]
             ELSE [fatal |-> "", version |-> s[2]]

NoProcess == [some |-> FALSE, exe |-> << >>, argv |-> << >>]

ProjectPathFlag == <<"-", "p", "r", "o", "j", "e", "c", "t", "P", "a", "t", "h">>

\* openProject that falls back to the newest known version on a miss
openProjectFallback(c, path, meta, startOk) ==
    LET v == getProjectVersion(meta)
        keys == SortNames(DOMAIN c.Versions)
        exe == IF v.version \in DOMAIN c.Versions THEN c.Versions[v.version]
               ELSE c.Versions[keys[Len(keys)]]
    IN  IF v.fatal # "" THEN [fatal |-> v.fatal, proc |-> NoProcess]
        ELSE IF DOMAIN c.Versions = {}
             THEN [fatal |-> "VersionNotFound", proc |-> NoProcess]
        ELSE IF ~startOk THEN [fatal |-> "Start", proc |-> NoProcess]
        ELSE [fatal |-> "",
              proc |-> [some |-> TRUE, exe |-> exe, argv |-> <<ProjectPathFlag, path>>]]

\* config.openProject(path); startOk: cmd.Start succeeds
openProject(c, path, meta, startOk) ==
    LET v == getProjectVersion(meta)
    IN  IF v.fatal # "" THEN [fatal |-> v.fatal, proc |-> NoProcess]
        ELSE IF v.version \notin DOMAIN c.Versions
             THEN [fatal |-> "VersionNotFound", proc |-> NoProcess]
        ELSE IF ~startOk THEN [fatal |-> "Start", proc |-> NoProcess]
        ELSE [fatal |-> "",
              proc |-> [some |-> TRUE, exe |-> c.Versions[v.version],
                        argv |-> <<ProjectPathFlag, path>>]]

----------------------------------------------------------------------------
(* askProject and getRecentProjects *)

Recently == <<"R", "e", "c", "e", "n", "t", "l", "y", "U", "s", "e", "d",
              "P", "r", "o", "j", "e", "c", "t", "P", "a", "t", "h", "s">>

Nul == "\\0"

\* the registry key: whether OpenKey and ReadValueNames succeed, and its values
\* (name, data, whether GetBinaryValue succeeds)
RegValue(name, data, ok) == [name |-> name, data |-> data, ok |-> ok]

RecentValues ==
    << RegValue(Recently \o <<"-", "0">>, ProjectP \o <<Nul>>, TRUE),
       RegValue(<<"x">>, << >>, TRUE),
       RegValue(Recently \o <<"-", "1">>, ProjectQ \o <<Nul>>, TRUE) >>

Registries ==
    { [open |-> FALSE, names |-> TRUE, values |-> << >>],
      [open |-> TRUE, names |-> FALSE, values |-> << >>],
      [open |-> TRUE, names |-> TRUE, values |-> << >>],
      [open |-> TRUE, names |-> TRUE, values |-> RecentValues],
      [open |-> TRUE, names |-> TRUE,
       values |-> <<RegValue(Recently, <<Nul>>, TRUE)>>],
      [open |-> TRUE, names |-> TRUE,
       values |-> <<RegValue(Recently, << >>, TRUE)>>],
      [open |-> TRUE, names |-> TRUE,
       values |-> <<RegValue(Recently, << >>, FALSE)>>] }

\* the loop of getRecentProjects over the values from i on
RECURSIVE RecentFrom(_, _, _)
RecentFrom(values, i, r) ==
    IF i > Len(values) THEN [fatal |-> "", recents |-> r]
    ELSE LET v == values[i]
         IN  IF ~HasPrefix(v.name, Recently) THEN RecentFrom(values, i + 1, r)
             ELSE IF ~v.ok \/ v.data = << >>
                  THEN [fatal |-> "panic", recents |-> r]
             ELSE RecentFrom(values, i + 1,
                      Append(r, SubSeq(v.data, 1, Len(v.data) - 1)))

getRecentProjects(reg) ==
    IF ~reg.open \/ ~reg.names THEN [fatal |-> "registry", recents |-> << >>]
    ELSE RecentFrom(reg.values, 1, << >>)

Digits == {"0", "1", "2", "3", "4", "5", "6", "7", "8", "9"}

\* strconv.Atoi on the line read from stdin
RECURSIVE DigitsValue(_, _)
DigitsValue(s, acc) ==
    IF s = << >> THEN acc
    ELSE DigitsValue(Tail(s), 10 * acc + (Code(Head(s)) - Code("0")))

Atoi(s) ==
    LET signed == s # << >> /\ s[1] \in {"-", "+"}
        body == IF signed THEN Tail(s) ELSE s
    IN  IF body = << >> \/ \E i \in 1..Len(body) : body[i] \notin Digits
        THEN [ok |-> FALSE, n |-> 0]
        ELSE [ok |-> TRUE,
              n |-> IF signed /\ s[1] = "-" THEN 0 - DigitsValue(body, 0)
                    ELSE DigitsValue(body, 0)]

StdinLines == {<<"0">>, <<"1">>, <<"2">>, <<"-", "1">>, <<"x">>, << >>}

\* askProject() with the registry reg and the line on stdin
askProject(reg, line) ==
    LET rec == getRecentProjects(reg)
        index == Atoi(line)
    IN  IF rec.fatal # "" THEN [fatal |-> rec.fatal, project |-> << >>]
        ELSE IF ~index.ok THEN [fatal |-> "Atoi", project |-> << >>]
        ELSE IF index.n < 0 \/ index.n >= Len(rec.recents)
             THEN [fatal |-> "IndexOutOfRange", project |-> << >>]
        ELSE [fatal |-> "", project |-> rec.recents[index.n + 1]]

----------------------------------------------------------------------------
(* main, one invocation after another over the same config.toml *)

NoMeta == [some |-> FALSE, path |-> << >>, file |-> NoFile]
NoRebuilt == [some |-> FALSE, config |-> zeroConfig]

\* a file left by an earlier scan, and one edited by hand
UnityExePath(name) ==
    FilepathJoin(FilepathJoin(PathJoin(ProgramDir, name), Editor), UnityExe)

OldConfig ==
    [defaultConfig EXCEPT !.Versions = (<<"5">> :> UnityExePath(Unity5))]

EditedConfig ==
    [ProgramDir |-> <<"D", ":", "/", "e", "d">>,
     DirPattern |-> DirPattern,
     Versions |-> (<<"7">> :> <<"D", ":", Sep, "e", "d", Sep, "7", ".", "e", "x", "e">>)
                  @@ (<<"2", "0", ".", "1">> :> UnityExePath(Unity20))]

InitialFiles == {Absent, Malformed, Doc(Encode(OldConfig)), Doc(Encode(EditedConfig))}

\* no invocation is running
RunReset ==
    /\ pc = "idle"
    /\ args = << >>
    /\ reload = FALSE
    /\ list = FALSE
    /\ project = << >>
    /\ config = zeroConfig
    /\ how = "none"
    /\ listing = NotScanned
    /\ out = << >>
    /\ asked = FALSE
    /\ metaRead = NoMeta
    /\ launched = NoProcess
    /\ fatal = ""

MainIdle ==
    /\ storage = Absent
    /\ startStorage = Absent
    /\ runs = 0
    /\ prevRebuilt = NoRebuilt
    /\ RunReset

Init ==
    /\ storage \in InitialFiles
    /\ startStorage = storage
    /\ runs = 0
    /\ prevRebuilt = NoRebuilt
    /\ RunReset
    /\ WalkIdle
    /\ KeysIdle

\* main, lines 41-53: the program is started with the arguments a; flag.Parse,
\* then the project
Invoke(a) ==
    /\ pc = "idle"
    /\ runs < MaxRuns
    /\ runs' = runs + 1
    /\ args' = a
    /\ reload' = FlagParse(a).reload
    /\ list' = FlagParse(a).list
    /\ project' = IF FlagParse(a).err THEN << >> ELSE ProjectOf(a)
    /\ pc' = IF FlagParse(a).err THEN "fatal" ELSE "configure"
    /\ fatal' = IF FlagParse(a).err THEN "flag" ELSE ""
    /\ UNCHANGED <<storage, prevRebuilt, startStorage, config, how, listing, out,
                   asked, metaRead, launched, walkVars, keyVars>>

\* the process is gone (return from main, os.Exit in log.Fatal or flag.Parse,
\* a panic): only the file stays
ProcessExit ==
    /\ pc \in {"exit0", "fatal"}
    /\ pc' = "idle"
    /\ prevRebuilt' = IF how = "rebuilt" THEN [some |-> TRUE, config |-> config]
                      ELSE NoRebuilt
    /\ startStorage' = storage
    /\ args' = << >>
    /\ reload' = FALSE
    /\ list' = FALSE
    /\ project' = << >>
    /\ config' = zeroConfig
    /\ how' = "none"
    /\ listing' = NotScanned
    /\ out' = << >>
    /\ asked' = FALSE
    /\ metaRead' = NoMeta
    /\ launched' = NoProcess
    /\ fatal' = ""
    /\ UNCHANGED <<storage, runs, walkVars, keyVars>>

\* the state after config.initialize(*configDir) returned or died as r
Initialize(dir, r) ==
    /\ listing' = Scanned(dir)
    /\ storage' = r.file
    /\ config' = r.config
    /\ how' = IF r.fatal = "" THEN "rebuilt" ELSE "none"
    /\ fatal' = r.fatal
    /\ pc' = IF r.fatal = "" THEN "ready" ELSE "fatal"
    /\ UNCHANGED <<runs, prevRebuilt, startStorage, args, reload, list,
                   project, out, asked, metaRead, launched, walkVars, keyVars>>

IoOutcomes == {"ok", "createFails", "encodeFails"}

\* main, lines 56-57
InitializeOnReload ==
    /\ pc = "configure"
    /\ reload
    /\ \E dir \in Listings, io \in IoOutcomes :
           Initialize(dir, initialize(dir, storage, io))

\* main, line 58, toml.DecodeFile succeeding
LoadConfig ==
    /\ pc = "configure"
    /\ ~reload
    /\ DecodeFile(storage).ok
    /\ config' = DecodeFile(storage).config
    /\ how' = "loaded"
    /\ pc' = "ready"
    /\ UNCHANGED <<storage, runs, prevRebuilt, startStorage, args, reload, list,
                   project, listing, out, asked, metaRead, launched, fatal,
                   walkVars, keyVars>>

\* main, lines 58-59, toml.DecodeFile failing
InitializeOnLoadFailure ==
    /\ pc = "configure"
    /\ ~reload
    /\ ~DecodeFile(storage).ok
    /\ \E dir \in Listings, io \in IoOutcomes :
           Initialize(dir, initialize(dir, storage, io))

\* main without the return of line 66
AfterListFallsThrough == "resolve"

\* where main goes after the loop that prints the versions: the return of line 66
AfterList == "exit0"

\* main, lines 62-67; order is the order in which range yields the keys
ListVersions ==
    /\ pc = "ready"
    /\ list
    /\ \E order \in Orders(DOMAIN config.Versions) :
           LET keys == getVersionKeys(config.Versions, order)
           IN  out' = <<"listed">> \o
                      [i \in 1..Len(keys) |-> <<keys[i], <<":">>, config.Versions[keys[i]]>>]
    /\ pc' = AfterList
    /\ UNCHANGED <<storage, runs, prevRebuilt, startStorage, args, reload, list,
                   project, config, how, listing, asked, metaRead, launched,
                   fatal, walkVars, keyVars>>

AtResolve == (pc = "ready" /\ ~list) \/ pc = "resolve"

\* main, lines 69-71
AskProject ==
    /\ AtResolve
    /\ project = << >>
    /\ \E reg \in Registries, line \in StdinLines :
           LET r == askProject(reg, line)
           IN  /\ project' = r.project
               /\ fatal' = r.fatal
               /\ pc' = IF r.fatal = "" THEN "open" ELSE "fatal"
    /\ asked' = TRUE
    /\ UNCHANGED <<storage, runs, prevRebuilt, startStorage, args, reload, list,
                   config, how, listing, out, metaRead, launched, walkVars, keyVars>>

\* main, line 73
OpenProject ==
    /\ (AtResolve /\ project # << >>) \/ pc = "open"
    /\ \E meta \in MetaFiles, startOk \in BOOLEAN :
           LET r == openProject(config, project, meta, startOk)
           IN  /\ metaRead' = [some |-> TRUE, path |-> project, file |-> meta]
               /\ launched' = r.proc
               /\ fatal' = r.fatal
               /\ pc' = IF r.fatal = "" THEN "exit0" ELSE "fatal"
    /\ UNCHANGED <<storage, runs, prevRebuilt, startStorage, args, reload, list,
                   project, config, how, listing, out, asked, walkVars, keyVars>>

Next ==
    \/ \E a \in ArgLists : Invoke(a)
    \/ InitializeOnReload
    \/ LoadConfig
    \/ InitializeOnLoadFailure
    \/ ListVersions
    \/ AskProject
    \/ OpenProject
    \/ ProcessExit

Spec == Init /\ [][Next]_vars

----------------------------------------------------------------------------
(* SpecWalk: deepFind applied to every tree of a bounded family *)

Spines == UNION {[1..n -> {Editor, Zdir}] : n \in 0..MaxSpine}

\* the least element of a non-empty set of integers, -1 for the empty set
MinOf(S) == IF S = {} THEN -1 ELSE CHOOSE x \in S : \A y \in S : x <= y

WalkRoot == PathJoin(ProgramDir, <<"U", "n", "i", "t", "y", "5">>)

WalkInit ==
    /\ \E s \in Spines, j \in BOOLEAN, b \in {"dir", "baddir", "nostat"} :
           \E e \in SUBSET (0..Len(s)) :
               /\ Cardinality(e) <= MaxExes
               /\ \E d \in {-1, MinOf(e)} :
                      wtree = MkTree(s, e, d, j, b)
    /\ wres = NoResult
    /\ KeysIdle
    /\ MainIdle

\* deepFind(p, "Unity.exe") as loadVersions calls it
CallDeepFind ==
    /\ ~wres.done
    /\ wres' = [done |-> TRUE, ret |-> deepFind(wtree, WalkRoot, UnityExe)]
    /\ UNCHANGED <<wtree, keyVars, mainVars>>

WalkNext == CallDeepFind

SpecWalk == WalkInit /\ [][WalkNext]_vars

----------------------------------------------------------------------------
(* C9 *)

\* the path string Walk passes for the entry rel of the tree at root
RECURSIVE AbsPath(_, _)
AbsPath(root, rel) ==
    IF rel = << >> THEN root
    ELSE FilepathJoin(AbsPath(root, Prefix(rel, Len(rel) - 1)), rel[Len(rel)])

\* p comes before q in a pre-order traversal that lists directories in
\* ascending order of names
TreeLess(p, q) ==
    \E i \in 1..Len(q) :
        /\ \A j \in 1..(i - 1) : j <= Len(p) /\ p[j] = q[j]
        /\ \/ Len(p) = i - 1
           \/ Len(p) >= i /\ StrLess(p[i], q[i])

\* the files named Unity.exe whose path has at most depthCutoff separators
Candidates(tree, root) ==
    {p \in DOMAIN tree :
        /\ p # << >>
        /\ tree[p] = "file"
        /\ p[Len(p)] = UnityExe
        /\ Count(AbsPath(root, p), Sep) <= depthCutoff}

FirstCandidate(tree, root) ==
    CHOOSE p \in Candidates(tree, root) :
        \A q \in Candidates(tree, root) : p = q \/ TreeLess(p, q)

\* C9: deepFind never returns a path with more than 6 separators and never
\* visits an entry below a directory whose path has more than 6 separators;
\* and when a file named Unity.exe exists at a path with at most 6 separators
\* and the walk meets no I/O error, deepFind returns the first such file in
\* traversal order and that file is the last entry it visits.
DepthCutoffLaw ==
    wres.done =>
        LET r == wres.ret
        IN  /\ Count(r.path, Sep) <= depthCutoff
            /\ \A i \in 1..Len(r.visited) :
                   Count(r.visited[i], Sep) <= depthCutoff + 1
            /\ (Candidates(wtree, WalkRoot) # {} /\ r.err # "ioError") =>
                   /\ ~r.fatal
                   /\ r.path = AbsPath(WalkRoot, FirstCandidate(wtree, WalkRoot))
                   /\ r.visited[Len(r.visited)] = r.path

\* a tree holding Unity.exe both at 6 and at 7 separators, a pruned directory
\* at 7 separators, and the search returning the one at 6
DepthCutoffWitness ==
    /\ wres.done
    /\ ~wres.ret.fatal
    /\ Count(wres.ret.path, Sep) = depthCutoff
    /\ \E p \in DOMAIN wtree :
           /\ wtree[p] = "file"
           /\ p[Len(p)] = UnityExe
           /\ Count(AbsPath(WalkRoot, p), Sep) = depthCutoff + 1
    /\ \E i \in 1..Len(wres.ret.visited) :
           Count(wres.ret.visited[i], Sep) = depthCutoff + 1

----------------------------------------------------------------------------
(* SpecKeys: getVersionKeys applied to bounded Versions mappings, under     *)
(* every iteration order of the map                                        *)

KeyUniverse ==
    { <<"2", "0", "2", "1", ".", "1">>, <<"5", ".", "6">>,
      <<"2", "0", "1", "9", ".", "4">>, <<"4", ".", "7">>,
      <<"2">>, <<"2", "0">>, <<"2", "0", "0">>, <<"0", "2">>,
      <<"2", ".", "0">>, <<"5">> }

KeysInit ==
    /\ \E K \in SUBSET KeyUniverse :
           /\ Cardinality(K) <= MaxKeys
           /\ kvers = [k \in K |-> UnityExe]
           /\ korder \in Orders(K)
    /\ kres = NoResult
    /\ WalkIdle
    /\ MainIdle

CallGetVersionKeys ==
    /\ ~kres.done
    /\ kres' = [done |-> TRUE, ret |-> getVersionKeys(kvers, korder)]
    /\ UNCHANGED <<kvers, korder, walkVars, mainVars>>

KeysNext == CallGetVersionKeys

SpecKeys == KeysInit /\ [][KeysNext]_vars

----------------------------------------------------------------------------
(* C5 *)

\* C5: getVersionKeys returns each key of the mapping exactly once, every key
\* without the prefix "20" before every key with it, and each of the two
\* groups in ascending lexicographic order, whatever the iteration order.
OrderingLaw ==
    kres.done =>
        LET r == kres.ret
        IN  /\ Len(r) = Cardinality(DOMAIN kvers)
            /\ {r[i] : i \in 1..Len(r)} = DOMAIN kvers
            /\ \A i, j \in 1..Len(r) :
                   i < j =>
                       \/ ~HasPrefix(r[i], Twenty) /\ HasPrefix(r[j], Twenty)
                       \/ /\ HasPrefix(r[i], Twenty) = HasPrefix(r[j], Twenty)
                          /\ StrLess(r[i], r[j])

\* the example of the specification, iterated in the order it is written in
OrderingWitness ==
    /\ kres.done
    /\ korder = << <<"2", "0", "2", "1", ".", "1">>, <<"5", ".", "6">>,
                   <<"2", "0", "1", "9", ".", "4">>, <<"4", ".", "7">> >>
    /\ kres.ret = << <<"4", ".", "7">>, <<"5", ".", "6">>,
                     <<"2", "0", "1", "9", ".", "4">>,
                     <<"2", "0", "2", "1", ".", "1">> >>

----------------------------------------------------------------------------
(* Claims about main *)

HasArg(t) == \E i \in 1..Len(args) : args[i] = t

\* the arguments that are not flags: the positional project paths
Positionals == {args[i] : i \in {j \in 1..Len(args) : ~HasPrefix(args[j], <<"-">>)}}

Configured == how \in {"loaded", "rebuilt"}

Listed == out # << >>

\* a directory entry of the listing that loadVersions searches
Matched(f) == f.isDir /\ Len(FindDirSubmatch(f.name)) >= 2

\* Unity.exe exists below it within the depth bound
HasExe(f) == Candidates(f.tree, PathJoin(ProgramDir, f.name)) # {}

\* nothing below it fails to be read
Readable(f) == \A p \in DOMAIN f.tree : f.tree[p] \in {"dir", "file"}

Files(dir) == {dir.files[i] : i \in 1..Len(dir.files)}

\* C1: a matched directory without Unity.exe within the depth bound is
\* skipped: the scan is not aborted, and the rebuilt mapping has exactly the
\* keys of the matched directories that hold the executable.
MissingExeSkipped ==
    LET fs == Files(listing.dir)
    IN  (/\ listing.scanned
         /\ listing.dir.ok
         /\ \A f \in fs : Matched(f) => Readable(f)
         /\ \E f \in fs : Matched(f) /\ ~HasExe(f))
        => /\ fatal \notin {"ReadDir", "deepFind"}
           /\ how = "rebuilt" =>
                  DOMAIN config.Versions =
                      {FindDirSubmatch(f.name)[2] : f \in {g \in fs : Matched(g) /\ HasExe(g)}}

\* C2: the Configuration comes from exactly one of load and rebuild; it is
\* rebuilt whenever --reload is on the command line or the file does not load,
\* and loaded unchanged only without --reload.
ReloadForcesRebuild ==
    /\ pc \in {"ready", "resolve", "open", "exit0"} => Configured
    /\ (HasArg(Reload) /\ Configured) => how = "rebuilt"
    /\ how = "loaded" =>
           /\ DecodeFile(startStorage).ok
           /\ config = DecodeFile(startStorage).config
           /\ ~listing.scanned
    /\ how = "rebuilt" => HasArg(Reload) \/ ~DecodeFile(startStorage).ok

\* C3: with --list on the command line the run prints the versions and reads
\* no project metadata, asks for no recent project and starts no editor.
ListOnlyPrints ==
    HasArg(List) =>
        /\ ~metaRead.some
        /\ ~asked
        /\ ~launched.some
        /\ pc = "exit0" => Listed

\* C8: a project path given on the command line is the one resolved, and the
\* recent projects are asked for only when none was given.
PositionalIsResolved ==
    /\ asked => Positionals = {}
    /\ (metaRead.some /\ Positionals # {}) => metaRead.path \in Positionals
    /\ (pc = "exit0" /\ Positionals # {} /\ ~HasArg(List)) =>
           launched.some /\ launched.argv[2] \in Positionals

----------------------------------------------------------------------------
(* C4 *)

ResolutionState ==
    /\ launched.some =>
           /\ metaRead.some
           /\ metaRead.file.kind = "text"
           /\ LET s == FindVersionSubmatch(metaRead.file.data)
              IN  /\ Len(s) >= 2
                  /\ s[2] # << >>
                  /\ s[2] \in DOMAIN config.Versions
                  /\ launched.exe = config.Versions[s[2]]
           /\ launched.argv = <<ProjectPathFlag, metaRead.path>>
    /\ metaRead.some =>
           /\ pc \in {"exit0", "fatal"}
           /\ getProjectVersion(metaRead.file).fatal = "" =>
                  getProjectVersion(metaRead.file).version # << >>
           /\ (\/ metaRead.file.kind # "text"
               \/ Len(FindVersionSubmatch(metaRead.file.data)) < 2
               \/ FindVersionSubmatch(metaRead.file.data)[2] \notin DOMAIN config.Versions)
              => pc = "fatal" /\ fatal # "" /\ ~launched.some

\* the step that reads the metadata neither rebuilds nor rescans
ResolutionStep ==
    (~metaRead.some /\ metaRead'.some) =>
        /\ config' = config
        /\ storage' = storage
        /\ listing' = listing
        /\ how' = how

\* C4: an editor is started only for a metadata file whose m_EditorVersion
\* value is a key of config.Versions, as config.Versions[v] -projectPath path;
\* in every other case the run dies without a process, extraction never gives
\* an empty string, and the resolve step never rebuilds, rescans or retries.
ResolutionLaw == []ResolutionState /\ [][ResolutionStep]_vars

\* a loaded configuration holding version 7, a project whose first
\* m_EditorVersion line says 7, the editor of version 7 started
ResolutionWitness ==
    /\ launched.some
    /\ how = "loaded"
    /\ metaRead.file = Text(<<"x", "\n">> \o VersionLiteral \o <<"7", "\n">>
                              \o VersionLiteral \o <<"5", "\n">>)
    /\ launched.exe = config.Versions[<<"7">>]

----------------------------------------------------------------------------
(* C6 *)

\* C6: the invocation after a completed rebuild, run without --reload, loads
\* the file and obtains the Configuration that rebuild returned.
RoundTripLaw ==
    (prevRebuilt.some /\ ~reload /\ pc \notin {"idle", "configure"} /\ fatal # "flag") =>
        /\ how = "loaded"
        /\ config.ProgramDir = prevRebuilt.config.ProgramDir
        /\ config.DirPattern = prevRebuilt.config.DirPattern
        /\ DOMAIN config.Versions = DOMAIN prevRebuilt.config.Versions
        /\ \A k \in DOMAIN config.Versions :
               config.Versions[k] = prevRebuilt.config.Versions[k]

\* a rebuild that found two versions, loaded back by the next invocation
RoundTripWitness ==
    /\ prevRebuilt.some
    /\ how = "loaded"
    /\ Cardinality(DOMAIN prevRebuilt.config.Versions) = 2
    /\ config = prevRebuilt.config

----------------------------------------------------------------------------
(* C7 *)

\* C7: a run that loads leaves the file as it found it, and so does a run
\* whose rebuild dies in the scan; the file changes only in a run whose scan
\* completed; after a completed rebuild, at every later point of the run, the
\* file holds the rebuilt Configuration.
PersistLaw ==
    /\ how = "loaded" => storage = startStorage
    /\ fatal \in {"flag", "ReadDir", "deepFind"} => storage = startStorage
    /\ storage # startStorage =>
           /\ listing.scanned
           /\ loadVersions(defaultConfig, listing.dir).fatal = ""
    /\ how = "rebuilt" => storage = Doc(Encode(config))

\* a forced rebuild over an older file, followed by the listing
PersistWitness ==
    /\ how = "rebuilt"
    /\ startStorage.kind = "doc"
    /\ storage # startStorage
    /\ Listed

----------------------------------------------------------------------------
(* C10 *)

====
